---------------------------- MODULE Spec2Model ----------------------------
(***************************************************************************)
(* Model of name_generator.generator.NameGenerator: the lazy database      *)
(* connection, the threshold query with its single relaxation to 0.20,     *)
(* the weighted draws and the composition into full names and batches.     *)
(*                                                                         *)
(* Probabilities are integers in thousandths (0.40 is 400).  A random      *)
(* draw is a nondeterministic choice over the items random.choices can     *)
(* return: those with a positive weight.                                   *)
(***************************************************************************)
EXTENDS Integers, Sequences, FiniteSets, TLC

VARIABLES
    db_exists,   \* self.db_path.exists()
    tables,      \* the database: table name -> set of rows (DOMAIN = schema)
    _conn,       \* NameGenerator._conn: "None" or "open"
    pc,          \* "idle", "batch", "returned", "raised"
    request,     \* the public call in progress and its arguments
    i,           \* number of completed repetitions of the generate_batch loop
    results,     \* the list generate_batch builds
    ret,         \* the NameRecords returned by the other calls
    exc,         \* the exception that left the public call
    calls,       \* history: every generate_first_name / generate_last_name call
    fulls,       \* history: every generate_full_name call
    session,     \* "constructed", "entered" (inside a with block), "exited"
    dominant,    \* the value NameRecord.dominant_ethnicity returned
    args,        \* the command line of a run of main, or NoArgs
    client,      \* LLMValidator.client: "None" or "Anthropic"
    llm,         \* the LLMValidator call made and its outcome
    _validator_instance,  \* llm_validator._validator_instance
    got,         \* history: every get_validator call, its argument and result
    loader       \* the database file a DataLoader writes, and its imports

vars == <<db_exists, tables, _conn, pc, request, i, results, ret, exc, calls, fulls, session, dominant, args, client, llm, _validator_instance, got, loader>>

----------------------------------------------------------------------------
(* Bounds *)

MaxCount == 2

\* get_validator calls in a run
MaxGets == 2

\* imports into one database file
MaxImports == 2

----------------------------------------------------------------------------
(* Enumerations and constants of generator.py *)

Categories == {"white", "black", "hispanic", "asian", "other"}

EthnicityValues == Categories \cup {"any"}

GenderValues == {"M", "F", "ANY"}

P(w, b, h, a, o) ==
    [white |-> w, black |-> b, hispanic |-> h, asian |-> a, other |-> o]

DEFAULT_ETHNIC_DISTRIBUTION == P(600, 130, 180, 60, 30)

DEFAULT_MIN_PROBABILITY == 400

HALVED_RELAXED_MIN_PROBABILITY == 200 \div 2

RELAXED_MIN_PROBABILITY == 200

NameRecord(name, gender, count, prob) ==
    [name |-> name, gender |-> gender, count |-> count, prob |-> prob]

NoRecord == NameRecord("", "None", 0, P(0, 0, 0, 0, 0))

\* the keys of NameRecord.probabilities in the order the dict literal has them
ProbabilityKeys == <<"white", "black", "hispanic", "asian", "other">>

dominant_ethnicity_last_maximum(record) ==
    LET probs == record.prob
        k == CHOOSE k \in DOMAIN ProbabilityKeys :
                 /\ \A j \in DOMAIN ProbabilityKeys :
                        probs[ProbabilityKeys[j]] <= probs[ProbabilityKeys[k]]
                 /\ \A j \in DOMAIN ProbabilityKeys :
                        j > k => probs[ProbabilityKeys[j]] < probs[ProbabilityKeys[k]]
    IN ProbabilityKeys[k]

\* max(probs, key=probs.get): max walks the keys in order and keeps the first
\* key whose value no later key exceeds strictly
dominant_ethnicity(record) ==
    LET probs == record.prob
        k == CHOOSE k \in DOMAIN ProbabilityKeys :
                 /\ \A j \in DOMAIN ProbabilityKeys :
                        probs[ProbabilityKeys[j]] <= probs[ProbabilityKeys[k]]
                 /\ \A j \in DOMAIN ProbabilityKeys :
                        j < k => probs[ProbabilityKeys[j]] < probs[ProbabilityKeys[k]]
    IN ProbabilityKeys[k]

----------------------------------------------------------------------------
(* Exceptions: the class and the message that identify the raise site *)

NoException == [type |-> "None", msg |-> ""]

DatabaseNotFound == [type |-> "FileNotFoundError", msg |-> "Database not found"]

NoSuchTable == [type |-> "OperationalError", msg |-> "no such table"]

StrHasNoExists ==
    [type |-> "AttributeError", msg |-> "'str' object has no attribute 'exists'"]

ZeroTotalWeight ==
    [type |-> "ValueError", msg |-> "Total of weights must be greater than zero"]

NoNamesAvailable ==
    [type |-> "ValueError", msg |-> "No names available for selection"]

NoFirstNamesFound == [type |-> "ValueError", msg |-> "No first names found"]

NoSurnamesFound == [type |-> "ValueError", msg |-> "No surnames found"]

----------------------------------------------------------------------------
(* Inputs *)

FirstNameUniverse ==
    { NameRecord("Maria", "F", 10000, P(100, 50, 750, 80, 20)),
      NameRecord("Wei",   "M",  3000, P(50, 20, 30, 880, 20)),
      NameRecord("Pat",   "M",   100, P(350, 300, 250, 100, 0)) }

SurnameUniverse ==
    { NameRecord("Garcia", "None", 20000, P(50, 30, 850, 50, 20)),
      NameRecord("Smith",  "None", 30000, P(700, 200, 50, 30, 20)),
      NameRecord("Wang",   "None",  8000, P(25, 10, 20, 925, 20)) }

Databases ==
    { [t \in S |-> {}] : S \in SUBSET {"first_names", "surnames"} }
    \cup { [first_names |-> F, surnames |-> L] :
             F \in SUBSET FirstNameUniverse, L \in SUBSET SurnameUniverse }
    \cup { [first_names |-> F] : F \in SUBSET FirstNameUniverse }

CustomDistributions ==
    [ hispanic_asian |-> P(0, 0, 500, 500, 0),
      all_zero       |-> P(0, 0, 0, 0, 0) ]

DistributionArgs == {"None"} \cup DOMAIN CustomDistributions

\* records on which dominant_ethnicity is read: the names of the universes
\* and records where several categories share the highest probability
DominantInputs ==
    FirstNameUniverse \cup SurnameUniverse \cup
    { NameRecord("Tie", "None", 100, p) :
        p \in { P(400, 400, 100, 50, 50), P(200, 200, 200, 200, 200),
                P(0, 0, 0, 0, 0), P(100, 300, 300, 200, 100),
                P(50, 50, 100, 400, 400), P(100, 400, 50, 400, 50),
                P(0, 0, 0, 0, 1000) } }

EthnicityArgs == {"None"} \cup EthnicityValues

GenderArgs == {"None"} \cup GenderValues

MinProbabilities == {0, 100, 200, 300, 400, 900}

\* values given to --min-probability
MinProbabilityArgs == {100, 400, 900}

----------------------------------------------------------------------------
(* random.choices(population, weights, k=1)[0] *)

RECURSIVE SumWeights(_, _)
SumWeights(S, w) ==
    IF S = {} THEN 0
    ELSE LET x == CHOOSE y \in S : TRUE
         IN w[x] + SumWeights(S \ {x}, w)

\* The values the draw can produce; the empty set when it raises.
random_choices(population, w) ==
    IF SumWeights(population, w) <= 0
    THEN [exc |-> ZeroTotalWeight, values |-> {}]
    ELSE [exc |-> NoException, values |-> {x \in population : w[x] > 0}]

----------------------------------------------------------------------------
(* NameGenerator.conn *)

conn_without_exists_check(c) ==
    IF c = "None" THEN [exc |-> NoException, conn |-> "open"]
    ELSE [exc |-> NoException, conn |-> c]

\* The type of self.db_path: __init__ stores the argument as it is given
\* and puts a Path in its place only when it is None; main gives it the
\* string of --db-path.
db_path ==
    IF args.db_path # "None" THEN "str" ELSE "Path"

conn(c) ==
    IF c = "None"
    THEN IF db_path # "Path"
         THEN [exc |-> StrHasNoExists, conn |-> "None"]
         ELSE IF ~db_exists
         THEN [exc |-> DatabaseNotFound, conn |-> "None"]
         ELSE [exc |-> NoException, conn |-> "open"]
    ELSE [exc |-> NoException, conn |-> c]

\* NameGenerator.close, as a function of self._conn
close_without_reset(c) ==
    c

close(c) ==
    IF c # "None" THEN "None" ELSE c

----------------------------------------------------------------------------
(* NameGenerator._select_ethnicity *)

_select_ethnicity_always_draws(ethnicity, distribution) ==
    LET d == IF distribution = "None"
             THEN DEFAULT_ETHNIC_DISTRIBUTION
             ELSE CustomDistributions[distribution]
        r == random_choices(DOMAIN d, d)
    IN IF r.exc # NoException
       THEN { [value |-> "any", exc |-> r.exc, draws |-> 1] }
       ELSE { [value |-> v, exc |-> NoException, draws |-> 1] : v \in r.values }

_select_ethnicity_without_draw(ethnicity, distribution) ==
    IF ethnicity # "None" /\ ethnicity # "any"
    THEN { [value |-> ethnicity, exc |-> NoException, draws |-> 0] }
    ELSE { [value |-> "white", exc |-> NoException, draws |-> 0] }

_select_ethnicity_default_only(ethnicity, distribution) ==
    IF ethnicity # "None" /\ ethnicity # "any"
    THEN { [value |-> ethnicity, exc |-> NoException, draws |-> 0] }
    ELSE LET d == DEFAULT_ETHNIC_DISTRIBUTION
             r == random_choices(DOMAIN d, d)
         IN IF r.exc # NoException
            THEN { [value |-> "any", exc |-> r.exc, draws |-> 1] }
            ELSE { [value |-> v, exc |-> NoException, draws |-> 1] :
                     v \in r.values }

_select_ethnicity(ethnicity, distribution) ==
    IF ethnicity # "None" /\ ethnicity # "any"
    THEN { [value |-> ethnicity, exc |-> NoException, draws |-> 0] }
    ELSE LET d == IF distribution = "None"
                  THEN DEFAULT_ETHNIC_DISTRIBUTION
                  ELSE CustomDistributions[distribution]
             r == random_choices(DOMAIN d, d)
         IN IF r.exc # NoException
            THEN { [value |-> "any", exc |-> r.exc, draws |-> 1] }
            ELSE { [value |-> v, exc |-> NoException, draws |-> 1] :
                     v \in r.values }

----------------------------------------------------------------------------
(* NameGenerator._fetch_names *)

GenderClause(gender, table) ==
    gender # "None" /\ gender # "ANY" /\ table = "first_names"

_fetch_names_strict_threshold(c, table, ethnicity, gender, min_probability) ==
    LET k == conn(c)
    IN IF k.exc # NoException
       THEN [rows |-> {}, exc |-> k.exc, conn |-> k.conn]
       ELSE IF table \notin DOMAIN tables
       THEN [rows |-> {}, exc |-> NoSuchTable, conn |-> k.conn]
       ELSE [rows |-> { r \in tables[table] :
                          /\ r.prob[ethnicity] > min_probability
                          /\ GenderClause(gender, table) => r.gender = gender },
             exc |-> NoException, conn |-> k.conn]

_fetch_names_without_gender(c, table, ethnicity, gender, min_probability) ==
    LET k == conn(c)
    IN IF k.exc # NoException
       THEN [rows |-> {}, exc |-> k.exc, conn |-> k.conn]
       ELSE IF table \notin DOMAIN tables
       THEN [rows |-> {}, exc |-> NoSuchTable, conn |-> k.conn]
       ELSE [rows |-> { r \in tables[table] :
                          r.prob[ethnicity] >= min_probability },
             exc |-> NoException, conn |-> k.conn]

_fetch_names(c, table, ethnicity, gender, min_probability) ==
    LET k == conn(c)
    IN IF k.exc # NoException
       THEN [rows |-> {}, exc |-> k.exc, conn |-> k.conn]
       ELSE IF table \notin DOMAIN tables
       THEN [rows |-> {}, exc |-> NoSuchTable, conn |-> k.conn]
       ELSE [rows |-> { r \in tables[table] :
                          /\ r.prob[ethnicity] >= min_probability
                          /\ GenderClause(gender, table) => r.gender = gender },
             exc |-> NoException, conn |-> k.conn]

----------------------------------------------------------------------------
(* NameGenerator._weighted_select *)

\* prob * (1 + count / 100000), scaled by 100000
Weight(name, ethnicity) == name.prob[ethnicity] * (100000 + name.count)

_weighted_select_argmax(names, ethnicity) ==
    IF names = {}
    THEN { [ret |-> NoRecord, exc |-> NoNamesAvailable] }
    ELSE LET r == random_choices(names, [n \in names |-> Weight(n, ethnicity)])
         IN IF r.exc # NoException
            THEN { [ret |-> NoRecord, exc |-> r.exc] }
            ELSE { [ret |-> n, exc |-> NoException] :
                     n \in { x \in r.values :
                               \A y \in names :
                                  Weight(y, ethnicity) <= Weight(x, ethnicity) } }

_weighted_select(names, ethnicity) ==
    IF names = {}
    THEN { [ret |-> NoRecord, exc |-> NoNamesAvailable] }
    ELSE LET r == random_choices(names, [n \in names |-> Weight(n, ethnicity)])
         IN IF r.exc # NoException
            THEN { [ret |-> NoRecord, exc |-> r.exc] }
            ELSE { [ret |-> n, exc |-> NoException] : n \in r.values }

----------------------------------------------------------------------------
(* History records *)

\* One call of _fetch_names as its caller saw it.
FetchEntry(table, ethnicity, gender, min_probability, widened, f) ==
    [table |-> table, ethnicity |-> ethnicity, gender |-> gender,
     min_probability |-> min_probability, widened |-> widened,
     rows |-> f.rows, exc |-> f.exc]

\* One call of generate_first_name or generate_last_name.
\*   draws    random draws _select_ethnicity made in this call
\*   fetches  the calls of _fetch_names, in order
\*   sampled  whether _weighted_select was called, and names its argument
NameCall(fn, ethnicity, gender, min_probability, target, draws, fetches, sampled, names, r, e, c) ==
    [fn |-> fn, ethnicity |-> ethnicity, gender |-> gender,
     min_probability |-> min_probability, target |-> target, draws |-> draws,
     fetches |-> fetches, sampled |-> sampled, names |-> names,
     ret |-> r, exc |-> e, conn |-> c]

----------------------------------------------------------------------------
(* NameGenerator.generate_first_name / generate_last_name *)

FallbackWithoutLowerLimit(names, min_probability) ==
    names = {}

FallbackDisabled(names, min_probability) ==
    FALSE

\* "if not names and min_probability > 0.20"
FallbackNeeded(names, min_probability) ==
    names = {} /\ min_probability > RELAXED_MIN_PROBABILITY

generate_first_name(c, ethnicity, gender, distribution, min_probability) ==
    UNION {
      IF sel.exc # NoException
      THEN { NameCall("generate_first_name", ethnicity, gender, min_probability,
                      sel.value, sel.draws, <<>>, FALSE, {}, NoRecord,
                      sel.exc, c) }
      ELSE
        LET target_ethnicity == sel.value
            g == IF gender = "None" THEN "ANY" ELSE gender
            f1 == _fetch_names(c, "first_names", target_ethnicity, g,
                               min_probability)
            e1 == FetchEntry("first_names", target_ethnicity, g,
                             min_probability, FALSE, f1)
            widen == f1.exc = NoException
                     /\ FallbackNeeded(f1.rows, min_probability)
            f2 == _fetch_names(f1.conn, "first_names", target_ethnicity, g,
                               RELAXED_MIN_PROBABILITY)
            e2 == FetchEntry("first_names", target_ethnicity, g,
                             RELAXED_MIN_PROBABILITY, TRUE, f2)
            f == IF widen THEN f2 ELSE f1
            fetches == IF widen THEN <<e1, e2>> ELSE <<e1>>
            names == f.rows
        IN IF f.exc # NoException
           THEN { NameCall("generate_first_name", ethnicity, gender,
                           min_probability, target_ethnicity, sel.draws,
                           fetches, FALSE, {}, NoRecord, f.exc, f.conn) }
           ELSE IF names = {}
           THEN { NameCall("generate_first_name", ethnicity, gender,
                           min_probability, target_ethnicity, sel.draws,
                           fetches, FALSE, {}, NoRecord, NoFirstNamesFound,
                           f.conn) }
           ELSE { NameCall("generate_first_name", ethnicity, gender,
                           min_probability, target_ethnicity, sel.draws,
                           fetches, TRUE, names, w.ret, w.exc, f.conn) :
                    w \in _weighted_select(names, target_ethnicity) }
      : sel \in _select_ethnicity(ethnicity, distribution) }

generate_last_name(c, ethnicity, distribution, min_probability) ==
    UNION {
      IF sel.exc # NoException
      THEN { NameCall("generate_last_name", ethnicity, "None", min_probability,
                      sel.value, sel.draws, <<>>, FALSE, {}, NoRecord,
                      sel.exc, c) }
      ELSE
        LET target_ethnicity == sel.value
            f1 == _fetch_names(c, "surnames", target_ethnicity, "None",
                               min_probability)
            e1 == FetchEntry("surnames", target_ethnicity, "None",
                             min_probability, FALSE, f1)
            widen == f1.exc = NoException
                     /\ FallbackNeeded(f1.rows, min_probability)
            f2 == _fetch_names(f1.conn, "surnames", target_ethnicity, "None",
                               RELAXED_MIN_PROBABILITY)
            e2 == FetchEntry("surnames", target_ethnicity, "None",
                             RELAXED_MIN_PROBABILITY, TRUE, f2)
            f == IF widen THEN f2 ELSE f1
            fetches == IF widen THEN <<e1, e2>> ELSE <<e1>>
            names == f.rows
        IN IF f.exc # NoException
           THEN { NameCall("generate_last_name", ethnicity, "None",
                           min_probability, target_ethnicity, sel.draws,
                           fetches, FALSE, {}, NoRecord, f.exc, f.conn) }
           ELSE IF names = {}
           THEN { NameCall("generate_last_name", ethnicity, "None",
                           min_probability, target_ethnicity, sel.draws,
                           fetches, FALSE, {}, NoRecord, NoSurnamesFound,
                           f.conn) }
           ELSE { NameCall("generate_last_name", ethnicity, "None",
                           min_probability, target_ethnicity, sel.draws,
                           fetches, TRUE, names, w.ret, w.exc, f.conn) :
                    w \in _weighted_select(names, target_ethnicity) }
      : sel \in _select_ethnicity(ethnicity, distribution) }

----------------------------------------------------------------------------
(* NameGenerator.generate_full_name *)

\* One call of generate_full_name: its own resolution, the calls it made
\* (first name, then surname if the first name was produced) and its outcome.
FullCall(ethnicity, target, draws, made, e, c) ==
    [ethnicity |-> ethnicity, target |-> target, draws |-> draws,
     calls |-> made, exc |-> e, conn |-> c]

\* Each half resolves the caller's ethnicity again instead of the resolved one.
generate_full_name_unshared(c, ethnicity, gender, distribution, min_probability) ==
    UNION {
      IF sel.exc # NoException
      THEN { FullCall(ethnicity, sel.value, sel.draws, <<>>, sel.exc, c) }
      ELSE
        UNION {
          IF first_name.exc # NoException
          THEN { FullCall(ethnicity, sel.value, sel.draws, <<first_name>>,
                          first_name.exc, first_name.conn) }
          ELSE { FullCall(ethnicity, sel.value, sel.draws,
                          <<first_name, last_name>>, last_name.exc,
                          last_name.conn) :
                   last_name \in generate_last_name(first_name.conn, ethnicity,
                                                    distribution,
                                                    min_probability) }
          : first_name \in generate_first_name(c, ethnicity, gender,
                                               distribution, min_probability) }
      : sel \in _select_ethnicity(ethnicity, distribution) }

generate_full_name(c, ethnicity, gender, distribution, min_probability) ==
    UNION {
      IF sel.exc # NoException
      THEN { FullCall(ethnicity, sel.value, sel.draws, <<>>, sel.exc, c) }
      ELSE
        UNION {
          IF first_name.exc # NoException
          THEN { FullCall(ethnicity, sel.value, sel.draws, <<first_name>>,
                          first_name.exc, first_name.conn) }
          ELSE { FullCall(ethnicity, sel.value, sel.draws,
                          <<first_name, last_name>>, last_name.exc,
                          last_name.conn) :
                   last_name \in generate_last_name(first_name.conn, sel.value,
                                                    distribution,
                                                    min_probability) }
          : first_name \in generate_first_name(c, sel.value, gender,
                                               distribution, min_probability) }
      : sel \in _select_ethnicity(ethnicity, distribution) }

----------------------------------------------------------------------------
(* NameGenerator.generate_batch: the entries and the loop *)

RoundedWithoutHalving(x) ==
    {x}

\* The values round(x / 2, 3) can take for x a sum of two probabilities, in
\* thousandths.  An even sum has an exact half.  An odd sum lies half way
\* between two thousandths and round() goes by the binary value of the
\* quotient, which falls on either side: round((0.101 + 0.102) / 2, 3) is
\* 0.102 and round((0.350 + 0.701) / 2, 3) is 0.525.
RoundedHalf(x) ==
    IF x % 2 = 0 THEN {x \div 2} ELSE {x \div 2, (x \div 2) + 1}

\* the dictionaries lines 352-360 can build for a pair
MeanProbabilities(first, last) ==
    { P(w, b, h, a, o) :
        w \in RoundedHalf(first.prob["white"] + last.prob["white"]),
        b \in RoundedHalf(first.prob["black"] + last.prob["black"]),
        h \in RoundedHalf(first.prob["hispanic"] + last.prob["hispanic"]),
        a \in RoundedHalf(first.prob["asian"] + last.prob["asian"]),
        o \in RoundedHalf(first.prob["other"] + last.prob["other"]) }

PairedEntry(first, last, probabilities) ==
    [first_name |-> first.name,
     last_name |-> last.name,
     full_name |-> <<first.name, last.name>>,
     gender |-> first.gender,
     ethnicity_probabilities |-> probabilities]

FirstOnlyEntry(first) ==
    [first_name |-> first.name,
     gender |-> first.gender,
     ethnicity_probabilities |-> [c \in Categories |-> first.prob[c]]]

RangeIncludesCount(k, count) ==
    k <= count

\* "for _ in range(count)": a further repetition follows k completed ones
RangeContinues(k, count) ==
    k < count

----------------------------------------------------------------------------
(* llm_validator.LLMValidator *)

\* Text is a sequence of one-character strings.
Whitespace == {" ", "\t", "\n"}

\* str.lower on the letters the responses use
Lower(ch) ==
    CASE ch = "T" -> "t"
      [] ch = "R" -> "r"
      [] ch = "U" -> "u"
      [] ch = "E" -> "e"
      [] ch = "A" -> "a"
      [] OTHER -> ch

lower(text) == [k \in DOMAIN text |-> Lower(text[k])]

\* "sub in text"
Contains(text, sub) ==
    \E k \in 0..(Len(text) - Len(sub)) : SubSeq(text, k + 1, k + Len(sub)) = sub

\* text.strip(chars)
strip(text, chars) ==
    LET kept == {k \in DOMAIN text : text[k] \notin chars}
    IN IF kept = {} THEN <<>>
       ELSE SubSeq(text, CHOOSE k \in kept : \A j \in kept : k <= j,
                         CHOOSE k \in kept : \A j \in kept : j <= k)

\* What the Anthropic client does with messages.create and what the message
\* it returns holds: the call raises, message.content is empty, its first
\* block has no text attribute, or the block carries a text.
LLMResponse(kind, text) == [kind |-> kind, text |-> text]

ResponseTexts ==
    { <<"t", "r", "u", "e">>,
      <<"{", "T", "r", "u", "e", "}">>,
      <<"f", "a", "l", "s", "e">>,
      <<" ", "\"", "A", "n", "a", ".", "\"", "\n">>,
      <<>> }

LLMResponses ==
    { LLMResponse(k, <<>>) : k \in {"create_raises", "empty_content", "no_text"} }
    \cup { LLMResponse("text", t) : t \in ResponseTexts }

APIConnectionError == [type |-> "APIConnectionError", msg |-> "Connection error."]

IndexError == [type |-> "IndexError", msg |-> "list index out of range"]

AttributeError == [type |-> "AttributeError", msg |-> "object has no attribute 'text'"]

\* "message = self.client.messages.create(...)" followed by
\* "message.content[0].text": the text, or the exception raised on the way
ResponseText(response) ==
    CASE response.kind = "create_raises" -> [exc |-> APIConnectionError, text |-> <<>>]
      [] response.kind = "empty_content" -> [exc |-> IndexError, text |-> <<>>]
      [] response.kind = "no_text" -> [exc |-> AttributeError, text |-> <<>>]
      [] OTHER -> [exc |-> NoException, text |-> response.text]

\* LLMValidator.__init__: the client exists when an API key is given or found
LLMValidator(api_key) ==
    IF api_key # "None" /\ api_key # "" THEN "Anthropic" ELSE "None"

is_available(cl) == cl # "None"

ValidationResult(is_valid, confidence, explanation) ==
    [is_valid |-> is_valid, confidence |-> confidence,
     explanation |-> explanation]

validate_name_combination_propagating(cl, response) ==
    IF ~is_available(cl)
    THEN [exc |-> NoException,
          ret |-> ValidationResult(TRUE, 500,
                      <<"LLM validation not available (no API key)">>)]
    ELSE LET r == ResponseText(response)
         IN IF r.exc # NoException
            THEN [exc |-> r.exc, ret |-> <<>>]
            ELSE [exc |-> NoException,
                  ret |-> ValidationResult(
                              Contains(lower(r.text), <<"t", "r", "u", "e">>),
                              800, r.text)]

validate_name_combination(cl, response) ==
    IF ~is_available(cl)
    THEN [exc |-> NoException,
          ret |-> ValidationResult(TRUE, 500,
                      <<"LLM validation not available (no API key)">>)]
    ELSE LET r == ResponseText(response)
         IN IF r.exc # NoException
            THEN [exc |-> NoException,
                  ret |-> ValidationResult(TRUE, 500,
                              <<"Validation error: ", r.exc.msg>>)]
            ELSE [exc |-> NoException,
                  ret |-> ValidationResult(
                              Contains(lower(r.text), <<"t", "r", "u", "e">>),
                              800, r.text)]

generate_middle_name(cl, response) ==
    IF ~is_available(cl)
    THEN [exc |-> NoException, ret |-> <<>>]
    ELSE LET r == ResponseText(response)
         IN IF r.exc # NoException
            THEN [exc |-> NoException, ret |-> <<>>]
            ELSE [exc |-> NoException,
                  ret |-> strip(strip(r.text, Whitespace),
                                {"\"", "'", ".", ","})]

NameContext(origin, meaning, cultural_notes) ==
    [origin |-> origin, meaning |-> meaning, cultural_notes |-> cultural_notes]

get_name_context(cl, response) ==
    IF ~is_available(cl)
    THEN [exc |-> NoException,
          ret |-> NameContext("Unknown", "Unknown",
                              <<"LLM context not available">>)]
    ELSE LET r == ResponseText(response)
         IN IF r.exc # NoException
            THEN [exc |-> NoException,
                  ret |-> NameContext("Unknown", "Unknown",
                              <<"Error fetching context: ", r.exc.msg>>)]
            ELSE [exc |-> NoException,
                  ret |-> NameContext("See cultural_notes", "See cultural_notes",
                                      strip(r.text, Whitespace))]

\* One call of the validator: the method, its arguments, what the client did
\* and what the caller got.
LLMCall(op, first_name, last_name, ethnicity, response, o) ==
    [op |-> op, first_name |-> first_name, last_name |-> last_name,
     ethnicity |-> ethnicity, response |-> response,
     ret |-> o.ret, exc |-> o.exc]

NoLLMCall ==
    LLMCall("None", "", "", "None", LLMResponse("None", <<>>),
            [ret |-> <<>>, exc |-> NoException])

----------------------------------------------------------------------------
(* llm_validator.get_validator *)

\* "self.api_key = api_key or os.getenv(...)" with the variable unset
ApiKey(api_key) ==
    IF api_key # "None" /\ api_key # "" THEN api_key ELSE "None"

\* An LLMValidator object; id tells the objects apart: it is the number of
\* the get_validator call that constructed it.
ValidatorInstance(id, api_key) ==
    [id |-> id, api_key |-> ApiKey(api_key), client |-> LLMValidator(api_key)]

\* "_validator_instance: Optional[LLMValidator] = None"
NoValidatorInstance == [id |-> 0, api_key |-> "None", client |-> "None"]

get_validator_rekeyed(instance, api_key, n) ==
    IF instance = NoValidatorInstance \/ ApiKey(api_key) # "None"
    THEN ValidatorInstance(n, api_key)
    ELSE instance

\* the value of _validator_instance after the n-th call, which is also
\* what the call returns
get_validator(instance, api_key, n) ==
    IF instance = NoValidatorInstance
    THEN ValidatorInstance(n, api_key)
    ELSE instance

----------------------------------------------------------------------------
(* data_loader.DataLoader *)

\* One line of a .tab file of the dataset.
TabRow(name, whi, bla, his, asi, oth) ==
    [name |-> name, whi |-> whi, bla |-> bla, his |-> his, asi |-> asi,
     oth |-> oth]

\* row["name"].strip('"').strip().title() on the names the files hold
NormalizedName(raw) ==
    CASE raw = "maria" -> "Maria"
      [] raw = "MARIA" -> "Maria"
      [] raw = " wei " -> "Wei"
      [] raw = "garcia" -> "Garcia"
      [] raw = "GARCIA" -> "Garcia"
      [] raw = "wang" -> "Wang"
      [] raw = " " -> ""
      [] OTHER -> raw

FirstNamesTabs ==
    { << TabRow("maria", 100, 50, 750, 80, 20),
         TabRow("MARIA", 100, 50, 750, 80, 20),
         TabRow(" wei ", 50, 20, 30, 880, 20),
         TabRow(" ", 1000, 0, 0, 0, 0) >>,
      << TabRow("maria", 100, 50, 750, 80, 20),
         TabRow(" wei ", 50, 20, 30, 880, 20) >>,
      << >> }

SurnamesTabs ==
    { << TabRow("garcia", 50, 30, 850, 50, 20),
         TabRow("GARCIA", 50, 30, 850, 50, 20),
         TabRow("wang", 25, 10, 20, 925, 20) >>,
      << TabRow("garcia", 50, 30, 850, 50, 20) >>,
      << >> }

RECURSIVE parse_tab_file(_)
parse_tab_file(rows) ==
    IF rows = <<>> THEN <<>>
    ELSE LET row == Head(rows)
             name == NormalizedName(row.name)
             normalized == NameRecord(name, "None", 100,
                                      P(row.whi, row.bla, row.his, row.asi,
                                        row.oth))
         IN IF name = "" THEN parse_tab_file(Tail(rows))
            ELSE <<normalized>> \o parse_tab_file(Tail(rows))

\* The database file: whether the tables exist, their rows with the id
\* column, and the last id AUTOINCREMENT gave in each table.
LoaderDb(created, first_names, surnames, seq_first, seq_sur) ==
    [created |-> created, first_names |-> first_names, surnames |-> surnames,
     seq_first |-> seq_first, seq_sur |-> seq_sur]

NoDb == LoaderDb(FALSE, {}, {}, 0, 0)

TableRow(id, row) ==
    [id |-> id, name |-> row.name, gender |-> row.gender, count |-> row.count,
     prob |-> row.prob]

\* CREATE TABLE IF NOT EXISTS, twice
create_database(db) ==
    [db EXCEPT !.created = TRUE]

\* INSERT OR REPLACE INTO first_names under UNIQUE(name, gender): the rows
\* equal in both columns are deleted, and a NULL gender equals nothing
InsertFirstName(db, row) ==
    LET conflicts == { r \in db.first_names :
                         /\ r.name = row.name
                         /\ r.gender # "None"
                         /\ row.gender # "None"
                         /\ r.gender = row.gender }
    IN [db EXCEPT !.first_names = (@ \ conflicts)
                                    \cup {TableRow(db.seq_first + 1, row)},
                  !.seq_first = @ + 1]

\* INSERT OR REPLACE INTO surnames under UNIQUE(name), name NOT NULL
InsertSurname(db, row) ==
    LET conflicts == { r \in db.surnames : r.name = row.name }
    IN [db EXCEPT !.surnames = (@ \ conflicts)
                                 \cup {TableRow(db.seq_sur + 1, row)},
                  !.seq_sur = @ + 1]

RECURSIVE ImportFirstNames(_, _)
ImportFirstNames(db, data) ==
    IF data = <<>> THEN db
    ELSE ImportFirstNames(InsertFirstName(db, Head(data)), Tail(data))

RECURSIVE ImportSurnames(_, _)
ImportSurnames(db, data) ==
    IF data = <<>> THEN db
    ELSE ImportSurnames(InsertSurname(db, Head(data)), Tail(data))

\* import_data: without the tables the first INSERT raises
\* sqlite3.OperationalError, which the except clauses do not catch
import_data(db, first_names_data, surnames_data) ==
    IF ~db.created /\ (first_names_data # <<>> \/ surnames_data # <<>>)
    THEN [exc |-> NoSuchTable, db |-> db]
    ELSE [exc |-> NoException,
          db |-> ImportSurnames(ImportFirstNames(db, first_names_data),
                                surnames_data)]

\* setup_database on files already downloaded
setup_database(db, first_names_file, surnames_file) ==
    import_data(create_database(db), parse_tab_file(first_names_file),
                parse_tab_file(surnames_file))

\* What _fetch_names reads of a table: the columns without id, as a set
TableRows(rows) ==
    { NameRecord(r.name, r.gender, r.count, r.prob) : r \in rows }

\* the databases setup_database builds from the files
LoaderDatabases ==
    { [first_names |-> TableRows(d.first_names),
       surnames |-> TableRows(d.surnames)] :
        d \in { setup_database(NoDb, F, S).db :
                  F \in FirstNamesTabs, S \in SurnamesTabs } }

\* The loader's file and the history of its imports: the data of each
\* import and the file as it was before the last one.
Loader(db, before, imports, e) ==
    [db |-> db, before |-> before, imports |-> imports, exc |-> e]

NoLoader == Loader(NoDb, NoDb, <<>>, NoException)

----------------------------------------------------------------------------
(* State *)

Request(op, ethnicity, gender, distribution, min_probability, count, include_surnames, names) ==
    [op |-> op, ethnicity |-> ethnicity, gender |-> gender,
     distribution |-> distribution, min_probability |-> min_probability,
     count |-> count, include_surnames |-> include_surnames, names |-> names]

NoRequest == Request("None", "None", "None", "None", 0, 0, FALSE, {})

OutcomeSwallowed(e) ==
    "returned"

\* how a public call ends: an exception of a helper is not caught
Outcome(e) ==
    IF e = NoException THEN "returned" ELSE "raised"

\* the parsed command line of main
Args(min_probability, count, ethnicity, gender, first_only, path) ==
    [min_probability |-> min_probability, count |-> count,
     ethnicity |-> ethnicity, gender |-> gender, first_only |-> first_only,
     db_path |-> path]

NoArgs == Args(0, 0, "None", "None", FALSE, "None")

\* values of --db-path: not given, or the name of the database file
DbPathArgs == {"None", "names.db"}

\* NameGenerator(db_path) over any database file, the files the loader
\* builds included, or none
Init ==
    /\ db_exists \in BOOLEAN
    /\ tables \in (IF db_exists THEN Databases \cup LoaderDatabases
                  ELSE { [t \in {} |-> {}] })
    /\ _conn = "None"
    /\ pc = "idle"
    /\ request = NoRequest
    /\ i = 0
    /\ results = <<>>
    /\ ret = <<>>
    /\ exc = NoException
    /\ calls = <<>>
    /\ fulls = <<>>
    /\ session = "constructed"
    /\ dominant = "None"
    /\ args = NoArgs
    /\ client = "None"
    /\ llm = NoLLMCall
    /\ _validator_instance = NoValidatorInstance
    /\ got = <<>>
    /\ loader = NoLoader

----------------------------------------------------------------------------
(* The public calls.  A generator is used on its own or as the subject of  *)
(* one with block, and is not used again once the block is left.           *)

GenerateFirstName ==
    /\ pc = "idle"
    /\ session # "exited"
    /\ \E e \in EthnicityArgs, g \in GenderArgs, d \in DistributionArgs,
          m \in MinProbabilities :
         \E o \in generate_first_name(_conn, e, g, d, m) :
            /\ request' = Request("generate_first_name", e, g, d, m, 0, FALSE, {})
            /\ calls' = <<o>>
            /\ _conn' = o.conn
            /\ exc' = o.exc
            /\ ret' = IF o.exc = NoException THEN <<o.ret>> ELSE <<>>
            /\ pc' = Outcome(o.exc)
    /\ UNCHANGED <<db_exists, tables, i, results, fulls>>
    /\ UNCHANGED <<session, dominant, args, client, llm, _validator_instance, got, loader>>

GenerateLastName ==
    /\ pc = "idle"
    /\ session # "exited"
    /\ \E e \in EthnicityArgs, d \in DistributionArgs, m \in MinProbabilities :
         \E o \in generate_last_name(_conn, e, d, m) :
            /\ request' = Request("generate_last_name", e, "None", d, m, 0,
                                  FALSE, {})
            /\ calls' = <<o>>
            /\ _conn' = o.conn
            /\ exc' = o.exc
            /\ ret' = IF o.exc = NoException THEN <<o.ret>> ELSE <<>>
            /\ pc' = Outcome(o.exc)
    /\ UNCHANGED <<db_exists, tables, i, results, fulls>>
    /\ UNCHANGED <<session, dominant, args, client, llm, _validator_instance, got, loader>>

GenerateFullName ==
    /\ pc = "idle"
    /\ session # "exited"
    /\ \E e \in EthnicityArgs, g \in GenderArgs, d \in DistributionArgs,
          m \in MinProbabilities :
         \E o \in generate_full_name(_conn, e, g, d, m) :
            /\ request' = Request("generate_full_name", e, g, d, m, 0, FALSE, {})
            /\ fulls' = <<o>>
            /\ calls' = o.calls
            /\ _conn' = o.conn
            /\ exc' = o.exc
            /\ ret' = IF o.exc = NoException
                      THEN <<o.calls[1].ret, o.calls[2].ret>> ELSE <<>>
            /\ pc' = Outcome(o.exc)
    /\ UNCHANGED <<db_exists, tables, i, results>>
    /\ UNCHANGED <<session, dominant, args, client, llm, _validator_instance, got, loader>>

\* _weighted_select called directly with any candidate list
WeightedSelect ==
    /\ pc = "idle"
    /\ session # "exited"
    /\ \E names \in SUBSET FirstNameUniverse, e \in Categories :
         \E w \in _weighted_select(names, e) :
            /\ request' = Request("_weighted_select", e, "None", "None", 0, 0,
                                  FALSE, names)
            /\ exc' = w.exc
            /\ ret' = IF w.exc = NoException THEN <<w.ret>> ELSE <<>>
            /\ pc' = Outcome(w.exc)
    /\ UNCHANGED <<db_exists, tables, _conn, i, results, calls, fulls>>
    /\ UNCHANGED <<session, dominant, args, client, llm, _validator_instance, got, loader>>

\* generate_batch entered: "results = []"
GenerateBatch ==
    /\ pc = "idle"
    /\ session # "exited"
    /\ \E n \in 0..MaxCount, e \in EthnicityArgs, g \in GenderArgs,
          s \in BOOLEAN, d \in DistributionArgs :
         request' = Request("generate_batch", e, g, d, DEFAULT_MIN_PROBABILITY,
                            n, s, {})
    /\ pc' = "batch"
    /\ i' = 0
    /\ results' = <<>>
    /\ UNCHANGED <<db_exists, tables, _conn, ret, exc, calls, fulls>>
    /\ UNCHANGED <<session, dominant, args, client, llm, _validator_instance, got, loader>>

\* one repetition of the loop with a full name
BatchFullName ==
    /\ pc = "batch"
    /\ RangeContinues(i, request.count)
    /\ request.include_surnames
    /\ \E o \in generate_full_name(_conn, request.ethnicity, request.gender,
                                   request.distribution,
                                   DEFAULT_MIN_PROBABILITY) :
         /\ fulls' = Append(fulls, o)
         /\ calls' = calls \o o.calls
         /\ _conn' = o.conn
         /\ exc' = o.exc
         /\ IF o.exc = NoException
            THEN /\ \E m \in MeanProbabilities(o.calls[1].ret, o.calls[2].ret) :
                      results' = Append(results,
                                        PairedEntry(o.calls[1].ret,
                                                    o.calls[2].ret, m))
                 /\ i' = i + 1
                 /\ pc' = "batch"
            ELSE /\ pc' = "raised"
                 /\ UNCHANGED <<results, i>>
    /\ UNCHANGED <<db_exists, tables, request, ret>>
    /\ UNCHANGED <<session, dominant, args, client, llm, _validator_instance, got, loader>>

\* one repetition of the loop with a first name only
BatchFirstName ==
    /\ pc = "batch"
    /\ RangeContinues(i, request.count)
    /\ ~request.include_surnames
    /\ \E o \in generate_first_name(_conn, request.ethnicity, request.gender,
                                    request.distribution,
                                    DEFAULT_MIN_PROBABILITY) :
         /\ calls' = Append(calls, o)
         /\ _conn' = o.conn
         /\ exc' = o.exc
         /\ IF o.exc = NoException
            THEN /\ results' = Append(results, FirstOnlyEntry(o.ret))
                 /\ i' = i + 1
                 /\ pc' = "batch"
            ELSE /\ pc' = "raised"
                 /\ UNCHANGED <<results, i>>
    /\ UNCHANGED <<db_exists, tables, request, ret, fulls>>
    /\ UNCHANGED <<session, dominant, args, client, llm, _validator_instance, got, loader>>

\* the loop is exhausted: "return results"
BatchReturn ==
    /\ pc = "batch"
    /\ ~RangeContinues(i, request.count)
    /\ pc' = "returned"
    /\ UNCHANGED <<db_exists, tables, _conn, request, i, results, ret, exc,
                   calls, fulls>>
    /\ UNCHANGED <<session, dominant, args, client, llm, _validator_instance, got, loader>>

\* NameGenerator.close called by the user of the generator
Close ==
    /\ pc = "idle"
    /\ session # "exited"
    /\ _conn # "None"
    /\ _conn' = close(_conn)
    /\ UNCHANGED <<db_exists, tables, pc, request, i, results, ret, exc,
                   calls, fulls>>
    /\ UNCHANGED <<session, dominant, args, client, llm, _validator_instance, got, loader>>

\* "with NameGenerator(db_path) as generator:" reaches its body: __enter__
\* has returned self
Enter ==
    /\ session = "constructed"
    /\ pc = "idle"
    /\ _conn = "None"
    /\ session' = "entered"
    /\ UNCHANGED <<db_exists, tables, _conn, pc, request, i, results, ret, exc,
                   calls, fulls, dominant, args, client, llm, _validator_instance, got, loader>>

\* The with block is left: at its end, when no call is in progress (main's
\* block ends once generate_batch has returned and the output is printed),
\* or by the exception of a call in it.  __exit__ calls close.
Exit ==
    /\ session = "entered"
    /\ \/ pc = "idle"
       \/ pc = "raised"
       \/ pc = "returned" /\ args # NoArgs
    /\ _conn' = close(_conn)
    /\ session' = "exited"
    /\ UNCHANGED <<db_exists, tables, pc, request, i, results, ret, exc,
                   calls, fulls, dominant, args, client, llm, _validator_instance, got, loader>>

\* record.dominant_ethnicity read on any record
DominantEthnicity ==
    /\ pc = "idle"
    /\ session = "constructed"
    /\ \E record \in DominantInputs :
         /\ request' = Request("dominant_ethnicity", "None", "None", "None", 0,
                               0, FALSE, {record})
         /\ dominant' = dominant_ethnicity(record)
    /\ pc' = "returned"
    /\ UNCHANGED <<db_exists, tables, _conn, i, results, ret, exc, calls, fulls,
                   session, args, client, llm, _validator_instance, got, loader>>

\* main(argv) without --setup: the arguments are parsed, NameGenerator is
\* constructed with args.db_path (a str) or None, the with block is entered
\* and generate_batch is called with count, ethnicity, gender,
\* include_surnames and distribution=None.
Main ==
    /\ pc = "idle"
    /\ session = "constructed"
    /\ _conn = "None"
    /\ args = NoArgs
    /\ \E m \in MinProbabilityArgs, n \in 0..MaxCount, e \in EthnicityValues,
          g \in GenderValues, f \in BOOLEAN, p \in DbPathArgs :
         /\ args' = Args(m, n, e, g, f, p)
         /\ request' = Request("generate_batch", e, g, "None",
                               DEFAULT_MIN_PROBABILITY, n, ~f, {})
    /\ session' = "entered"
    /\ pc' = "batch"
    /\ i' = 0
    /\ results' = <<>>
    /\ UNCHANGED <<db_exists, tables, _conn, ret, exc, calls, fulls, dominant,
                   client, llm, _validator_instance, got, loader>>

\* The caller takes the outcome and is free to call again.
NextCall ==
    /\ pc \in {"returned", "raised"}
    /\ args = NoArgs
    /\ pc' = "idle"
    /\ request' = NoRequest
    /\ i' = 0
    /\ results' = <<>>
    /\ ret' = <<>>
    /\ exc' = NoException
    /\ calls' = <<>>
    /\ fulls' = <<>>
    /\ dominant' = "None"
    /\ UNCHANGED <<db_exists, tables, _conn, session, args, client, llm, _validator_instance, got, loader>>

Next ==
    \/ GenerateFirstName
    \/ GenerateLastName
    \/ GenerateFullName
    \/ WeightedSelect
    \/ GenerateBatch
    \/ BatchFullName
    \/ BatchFirstName
    \/ BatchReturn
    \/ Close
    \/ Enter
    \/ Exit
    \/ DominantEthnicity
    \/ Main
    \/ NextCall

Spec == Init /\ [][Next]_vars

----------------------------------------------------------------------------
(* The validator on its own: LLMValidator(api_key) and calls of its methods *)

ApiKeys == {"None", "", "sk-ant"}

FirstNames == {n.name : n \in FirstNameUniverse}

LastNames == {n.name : n \in SurnameUniverse}

InitLLM ==
    /\ db_exists = FALSE
    /\ tables = [t \in {} |-> {}]
    /\ _conn = "None"
    /\ pc = "idle"
    /\ request = NoRequest
    /\ i = 0
    /\ results = <<>>
    /\ ret = <<>>
    /\ exc = NoException
    /\ calls = <<>>
    /\ fulls = <<>>
    /\ session = "constructed"
    /\ dominant = "None"
    /\ args = NoArgs
    /\ client \in {LLMValidator(k) : k \in ApiKeys}
    /\ llm = NoLLMCall
    /\ _validator_instance = NoValidatorInstance
    /\ got = <<>>
    /\ loader = NoLoader

generator_vars == <<db_exists, tables, _conn, pc, request, i, results, ret, exc, calls, fulls, session, dominant, args>>

ValidateNameCombination ==
    /\ \E f \in FirstNames, l \in LastNames, e \in Categories,
          r \in LLMResponses :
         llm' = LLMCall("validate_name_combination", f, l, e, r,
                        validate_name_combination(client, r))
    /\ UNCHANGED <<generator_vars, client, _validator_instance, got, loader>>

GenerateMiddleName ==
    /\ \E f \in FirstNames, l \in LastNames, e \in Categories,
          r \in LLMResponses :
         llm' = LLMCall("generate_middle_name", f, l, e, r,
                        generate_middle_name(client, r))
    /\ UNCHANGED <<generator_vars, client, _validator_instance, got, loader>>

GetNameContext ==
    /\ \E n \in FirstNames \cup LastNames, r \in LLMResponses :
         llm' = LLMCall("get_name_context", n, "", "None", r,
                        get_name_context(client, r))
    /\ UNCHANGED <<generator_vars, client, _validator_instance, got, loader>>

\* validator = get_validator(api_key): the instance returned is the one the
\* caller goes on to use, and llm is the call made on the validator in use
GetValidator ==
    /\ Len(got) < MaxGets
    /\ \E k \in ApiKeys :
         LET v == get_validator(_validator_instance, k, Len(got) + 1)
         IN /\ _validator_instance' = v
            /\ got' = Append(got, [api_key |-> k, ret |-> v])
            /\ client' = v.client
    /\ llm' = NoLLMCall
    /\ UNCHANGED <<generator_vars, loader>>

NextLLM ==
    \/ ValidateNameCombination
    \/ GenerateMiddleName
    \/ GetNameContext
    \/ GetValidator

SpecLLM == InitLLM /\ [][NextLLM]_vars

----------------------------------------------------------------------------
(* The loader on its own: DataLoader(data_dir) and calls of its methods *)

InitLoader ==
    /\ db_exists = FALSE
    /\ tables = [t \in {} |-> {}]
    /\ _conn = "None"
    /\ pc = "idle"
    /\ request = NoRequest
    /\ i = 0
    /\ results = <<>>
    /\ ret = <<>>
    /\ exc = NoException
    /\ calls = <<>>
    /\ fulls = <<>>
    /\ session = "constructed"
    /\ dominant = "None"
    /\ args = NoArgs
    /\ client = "None"
    /\ llm = NoLLMCall
    /\ _validator_instance = NoValidatorInstance
    /\ got = <<>>
    /\ loader = NoLoader

validator_vars == <<client, llm, _validator_instance, got>>

\* one import as the history keeps it
Import(first_names_data, surnames_data, e) ==
    [first_names_data |-> first_names_data, surnames_data |-> surnames_data,
     exc |-> e]

CreateDatabase ==
    /\ loader' = [loader EXCEPT !.db = create_database(@)]
    /\ UNCHANGED <<generator_vars, validator_vars>>

\* import_data with the parsed content of any two files
ImportData ==
    /\ Len(loader.imports) < MaxImports
    /\ \E F \in FirstNamesTabs, S \in SurnamesTabs :
         LET first_names_data == parse_tab_file(F)
             surnames_data == parse_tab_file(S)
             r == import_data(loader.db, first_names_data, surnames_data)
         IN loader' = Loader(r.db, loader.db,
                             Append(loader.imports,
                                    Import(first_names_data, surnames_data,
                                           r.exc)),
                             r.exc)
    /\ UNCHANGED <<generator_vars, validator_vars>>

\* setup_database(skip_download=True): parse, create, import
SetupDatabase ==
    /\ Len(loader.imports) < MaxImports
    /\ \E F \in FirstNamesTabs, S \in SurnamesTabs :
         LET r == setup_database(loader.db, F, S)
         IN loader' = Loader(r.db, create_database(loader.db),
                             Append(loader.imports,
                                    Import(parse_tab_file(F),
                                           parse_tab_file(S), r.exc)),
                             r.exc)
    /\ UNCHANGED <<generator_vars, validator_vars>>

NextLoader ==
    \/ CreateDatabase
    \/ ImportData
    \/ SetupDatabase

SpecLoader == InitLoader /\ [][NextLoader]_vars

----------------------------------------------------------------------------
(* Vocabulary of the properties *)

Finished == pc \in {"returned", "raised"}

TableOf(fn) == IF fn = "generate_first_name" THEN "first_names" ELSE "surnames"

\* The rows of a table at or above a threshold for a category.
Matching(table, category, threshold) ==
    IF table \in DOMAIN tables
    THEN { r \in tables[table] : r.prob[category] >= threshold }
    ELSE {}

\* The same, restricted to a gender when the filter is MALE or FEMALE and the
\* table is first_names.
MatchingGender(table, category, gender, threshold) ==
    { r \in Matching(table, category, threshold) :
        (gender \in {"M", "F"} /\ table = "first_names") => r.gender = gender }

\* The calls whose category was resolved and whose queries all ran.
Queried(c) ==
    /\ c.fetches # <<>>
    /\ \A j \in 1..Len(c.fetches) : c.fetches[j].exc = NoException

Widened(c) == { j \in 1..Len(c.fetches) : c.fetches[j].widened }

RECURSIVE WidenedCount(_)
WidenedCount(cs) ==
    IF cs = <<>> THEN 0
    ELSE Cardinality(Widened(Head(cs))) + WidenedCount(Tail(cs))

RECURSIVE FetchCount(_)
FetchCount(cs) ==
    IF cs = <<>> THEN 0 ELSE Len(Head(cs).fetches) + FetchCount(Tail(cs))

RECURSIVE DrawCount(_)
DrawCount(cs) ==
    IF cs = <<>> THEN 0 ELSE Head(cs).draws + DrawCount(Tail(cs))

NoCandidatesOf(fn) ==
    IF fn = "generate_first_name" THEN NoFirstNamesFound ELSE NoSurnamesFound

----------------------------------------------------------------------------
(* C1 *)

\* C1 as stated: in every successful request, whatever min_probability was
\* passed, every returned record has a probability of at least 0.20 for the
\* category resolved for it.
C1_AtLeastRelaxedThreshold ==
    pc = "returned" =>
        \A k \in 1..Len(calls) :
            calls[k].ret.prob[calls[k].target] >= 200

\* C1 amended: in every successful request every returned record has a
\* probability of at least min(min_probability, 0.20) for the category
\* resolved for it; so at least 0.20 whenever min_probability >= 0.20.
C1_AtLeastLowerOfRequestedAndRelaxed ==
    pc = "returned" =>
        \A k \in 1..Len(calls) :
            calls[k].ret.prob[calls[k].target] >=
                (IF calls[k].min_probability < 200
                 THEN calls[k].min_probability ELSE 200)

\* a successful request whose record came from the relaxed query
C1_Witness ==
    /\ pc = "returned"
    /\ \E k \in 1..Len(calls) :
          /\ calls[k].min_probability >= 400
          /\ calls[k].ret.prob[calls[k].target] < 400
          /\ calls[k].ret.prob[calls[k].target] >= 200

----------------------------------------------------------------------------
(* C2 *)

\* C2: in generate_first_name and generate_last_name the sampled candidate
\* set is the result of the relaxed 0.20 query exactly when the query at the
\* requested threshold matched nothing and the 0.20 query matched something;
\* when the first query matched, the candidates are its result and the
\* returned record is one of them (so at or above min_probability); when both
\* match nothing the call raises the no-candidates ValueError and returns no
\* record.
C2_FallbackExactlyWhenNeeded ==
    \A k \in 1..Len(calls) :
        LET c == calls[k]
            t == TableOf(c.fn)
            A == MatchingGender(t, c.target, c.gender, c.min_probability)
            B == MatchingGender(t, c.target, c.gender, 200)
            relaxed == /\ c.sampled
                       /\ Len(c.fetches) = 2
                       /\ c.fetches[2].widened
                       /\ c.fetches[2].min_probability = 200
                       /\ c.names = c.fetches[2].rows
        IN Queried(c) =>
            /\ relaxed <=> (A = {} /\ B # {})
            /\ relaxed => c.names = B
            /\ A # {} =>
                  /\ c.sampled
                  /\ c.names = A
                  /\ c.exc = NoException =>
                        /\ c.ret \in A
                        /\ c.ret.prob[c.target] >= c.min_probability
            /\ c.exc = NoException => c.ret \in c.names
            /\ (A = {} /\ B = {}) =>
                  /\ ~c.sampled
                  /\ c.exc = NoCandidatesOf(c.fn)
                  /\ c.exc.type = "ValueError"
                  /\ c.ret = NoRecord
                  /\ pc = "raised"
                  /\ exc = c.exc
                  /\ ret = <<>>

\* the only first name matching white has 0.35 and is returned at 0.40
C2_Witness ==
    /\ pc = "returned"
    /\ request.op = "generate_first_name"
    /\ request.min_probability = 400
    /\ calls[1].target = "white"
    /\ Len(calls[1].fetches) = 2
    /\ Matching("first_names", "white", 200) = {ret[1]}
    /\ ret[1].prob["white"] = 350

----------------------------------------------------------------------------
(* C3 *)

\* C3 as stated: within one generate_first_name, generate_last_name or
\* generate_full_name request the threshold is widened to 0.20 at most once,
\* only when min_probability > 0.20, and after a widened query that is still
\* empty no further query is made and the request fails.
C3_WidenedOncePerRequest ==
    request.op \in {"generate_first_name", "generate_last_name",
                    "generate_full_name"} =>
        /\ WidenedCount(calls) <= 1
        /\ \A k \in 1..Len(calls) : \A j \in Widened(calls[k]) :
              /\ calls[k].min_probability > 200
              /\ calls[k].fetches[j].rows = {} =>
                    /\ j = Len(calls[k].fetches)
                    /\ k = Len(calls)
                    /\ pc = "raised"

\* C3 amended: within each generate_first_name or generate_last_name call (so
\* once per half of a generate_full_name call, at most twice in the whole
\* call) the threshold is widened to 0.20 at most once, only after an empty
\* first query and only when min_probability > 0.20; after a widened query
\* that is still empty no further query is made and the request fails.
C3_WidenedOncePerNameCall ==
    /\ \A k \in 1..Len(calls) :
          LET c == calls[k]
          IN /\ Len(c.fetches) <= 2
             /\ Cardinality(Widened(c)) <= 1
             /\ \A j \in Widened(c) :
                   /\ j = 2
                   /\ c.min_probability > 200
                   /\ c.fetches[j].min_probability = 200
                   /\ c.fetches[1].rows = {}
                   /\ c.fetches[j].rows = {} =>
                         /\ c.exc = NoCandidatesOf(c.fn)
                         /\ k = Len(calls)
                         /\ pc = "raised"
                         /\ exc = c.exc
    /\ request.op = "generate_full_name" => WidenedCount(calls) <= 2

\* a request failed after its widened query matched nothing
C3_Witness ==
    /\ pc = "raised"
    /\ calls # <<>>
    /\ LET c == calls[Len(calls)]
       IN /\ Len(c.fetches) = 2
          /\ c.fetches[2].widened
          /\ c.fetches[2].rows = {}
          /\ tables[TableOf(c.fn)] # {}

----------------------------------------------------------------------------
(* C4 *)

\* C4: every generate_full_name call resolves the category with at most one
\* random draw (none for a concrete category), and the first-name call and
\* the surname call both query and pick for that same concrete category.
C4_OneResolutionSharedByBothHalves ==
    \A n \in 1..Len(fulls) :
        LET f == fulls[n]
        IN /\ f.draws + DrawCount(f.calls) <= 1
           /\ f.ethnicity \in Categories =>
                 /\ f.draws + DrawCount(f.calls) = 0
                 /\ f.target = f.ethnicity
           /\ f.calls # <<>> => f.target \in Categories
           /\ \A k \in 1..Len(f.calls) :
                 /\ f.calls[k].target = f.target
                 /\ f.calls[k].fn = (IF k = 1 THEN "generate_first_name"
                                     ELSE "generate_last_name")
                 /\ \A j \in 1..Len(f.calls[k].fetches) :
                       f.calls[k].fetches[j].ethnicity = f.target
                 /\ f.calls[k].exc = NoException =>
                       f.calls[k].ret \in
                           Matching(TableOf(f.calls[k].fn), f.target, 0)

\* a full name produced for a category drawn from a distribution
C4_Witness ==
    /\ pc = "returned"
    /\ request.op = "generate_full_name"
    /\ request.ethnicity \in {"None", "any"}
    /\ fulls[1].draws = 1
    /\ Len(calls) = 2
    /\ calls[1].target = calls[2].target
    /\ Len(ret) = 2

----------------------------------------------------------------------------
(* C5 *)

----------------------------------------------------------------------------
(* C6 *)

\* C6 as stated: _fetch_names(table, category, gender, min_probability)
\* returns exactly the rows of the table whose probability for the category
\* is >= min_probability, none missing and none extra.
C6_FetchIsThresholdFilter ==
    \A k \in 1..Len(calls) : \A j \in 1..Len(calls[k].fetches) :
        LET f == calls[k].fetches[j]
        IN f.exc = NoException =>
              f.rows = Matching(f.table, f.ethnicity, f.min_probability)

\* C6 amended: _fetch_names returns exactly the rows of the table whose
\* probability for the category is >= min_probability and, when the gender
\* filter is MALE or FEMALE and the table is first_names, whose gender is the
\* filter's; none missing, none extra, none of the other table.
C6_FetchIsThresholdAndGenderFilter ==
    \A k \in 1..Len(calls) : \A j \in 1..Len(calls[k].fetches) :
        LET f == calls[k].fetches[j]
        IN f.exc = NoException =>
              /\ f.table \in DOMAIN tables
              /\ f.rows = { r \in tables[f.table] :
                              /\ r.prob[f.ethnicity] >= f.min_probability
                              /\ (f.gender \in {"M", "F"}
                                  /\ f.table = "first_names")
                                     => r.gender = f.gender }

\* with Maria and Wei in first_names, hispanic at 0.40 matched only Maria
C6_Witness ==
    /\ calls # <<>>
    /\ calls[1].fetches # <<>>
    /\ \E r \in Matching("first_names", "asian", 400) : r.name = "Wei"
    /\ LET f == calls[1].fetches[1]
       IN /\ f.table = "first_names"
          /\ f.ethnicity = "hispanic"
          /\ f.min_probability = 400
          /\ f.exc = NoException
          /\ {r.name : r \in f.rows} = {"Maria"}

----------------------------------------------------------------------------
(* C7 *)

\* C7: with the gender filter MALE or FEMALE every first name queried and
\* returned has that gender, in the relaxed 0.20 query too; with ANY or no
\* filter the first-name queries are not restricted by gender; the surname
\* queries are never restricted by the request's gender.
C7_GenderFilterOnFirstNamesOnly ==
    \A k \in 1..Len(calls) :
        LET c == calls[k]
        IN /\ (c.fn = "generate_first_name" /\ c.gender \in {"M", "F"}) =>
                 /\ \A j \in 1..Len(c.fetches) :
                       \A r \in c.fetches[j].rows : r.gender = c.gender
                 /\ c.exc = NoException => c.ret.gender = c.gender
           /\ (c.fn = "generate_first_name" /\ c.gender \in {"None", "ANY"}) =>
                 \A j \in 1..Len(c.fetches) :
                    c.fetches[j].exc = NoException =>
                       c.fetches[j].rows =
                          Matching("first_names", c.target,
                                   c.fetches[j].min_probability)
           /\ c.fn = "generate_last_name" =>
                 \A j \in 1..Len(c.fetches) :
                    c.fetches[j].exc = NoException =>
                       c.fetches[j].rows =
                          Matching("surnames", c.target,
                                   c.fetches[j].min_probability)

\* a MALE full name whose first name came from the relaxed query although a
\* female name matched the category, and whose surname was found
C7_Witness ==
    /\ pc = "returned"
    /\ request.op = "generate_full_name"
    /\ request.gender = "M"
    /\ Len(calls) = 2
    /\ Len(calls[1].fetches) = 2
    /\ calls[1].ret.gender = "M"
    /\ \E r \in Matching("first_names", calls[1].target, 200) : r.gender = "F"
    /\ calls[2].ret \in tables["surnames"]

----------------------------------------------------------------------------
(* C8 *)

\* C8: against a database file that does not exist a request that queries
\* fails with FileNotFoundError, which is not the class of the no-candidates
\* error; the connection stays None and the query is attempted once only.
C8_MissingFileIsFileNotFound ==
    (~db_exists /\ db_path = "Path") =>
        /\ _conn = "None"
        /\ pc # "returned" => ret = <<>>
        /\ FetchCount(calls) <= 1
        /\ FetchCount(calls) = 1 =>
              /\ pc = "raised"
              /\ exc = DatabaseNotFound
              /\ exc.type = "FileNotFoundError"
              /\ exc.type # NoFirstNamesFound.type
              /\ exc.type # NoSurnamesFound.type
              /\ calls[Len(calls)].fetches[1].exc = DatabaseNotFound
              /\ calls[Len(calls)].ret = NoRecord
        /\ (pc = "returned"
              /\ request.op \notin {"_weighted_select", "dominant_ethnicity"}) =>
              (request.op = "generate_batch" /\ request.count = 0)

\* a request failed on the missing file
C8_Witness ==
    /\ ~db_exists
    /\ pc = "raised"
    /\ exc.type = "FileNotFoundError"
    /\ FetchCount(calls) = 1
    /\ _conn = "None"

----------------------------------------------------------------------------
(* C9 *)

\* C9 as stated: when the database file exists but the queried table is
\* missing or has no rows, the request surfaces the data-unavailable error
\* (FileNotFoundError), not another exception and not the no-candidates
\* error.
C9_EmptyOrMissingTableIsDataUnavailable ==
    (db_exists /\ Finished /\ calls # <<>>) =>
        LET c == calls[Len(calls)]
            t == TableOf(c.fn)
        IN (c.fetches # <<>> /\ (t \notin DOMAIN tables \/ tables[t] = {})) =>
              /\ pc = "raised"
              /\ exc.type = DatabaseNotFound.type
              /\ exc.type # NoCandidatesOf(c.fn).type

----------------------------------------------------------------------------
(* C10 *)

\* C10 as stated: _weighted_select on an empty candidate list raises an error
\* of a class other than that of the no-candidates error of
\* generate_first_name and generate_last_name.
C10_EmptySelectErrorIsDistinct ==
    (pc = "raised" /\ request.op = "_weighted_select" /\ request.names = {}) =>
        /\ exc.type # NoFirstNamesFound.type
        /\ exc.type # NoSurnamesFound.type

----------------------------------------------------------------------------
(* C11 *)

\* C11 as stated: the weighted pick over a candidate list of length 1 always
\* returns that one candidate, for every candidate record (a probability of
\* 0 for the category included) and every category.
C11_SingleCandidateIsReturned ==
    (Finished /\ request.op = "_weighted_select"
       /\ Cardinality(request.names) = 1) =>
        /\ pc = "returned"
        /\ \A n \in request.names : ret = <<n>>

----------------------------------------------------------------------------
(* C12 *)

\* the candidates whose weight prob * (1 + count / 100000) is positive
PositiveWeight(names, category) ==
    { n \in names : n.prob[category] * (100000 + n.count) > 0 }

\* the records a call of _weighted_select can return
Selectable(names, category) ==
    { w.ret : w \in { x \in _weighted_select(names, category) :
                        x.exc = NoException } }

\* C12: the weighted pick returns a member of its candidate list, and the
\* records it can return for an input are exactly the candidates of positive
\* weight: a candidate of lower weight remains selectable, one of weight zero
\* is never returned.
C12_WeightedPickIsProportionalDraw ==
    /\ (Finished /\ request.op = "_weighted_select") =>
          /\ pc = "returned" =>
                /\ Len(ret) = 1
                /\ ret[1] \in request.names
                /\ ret[1] \in PositiveWeight(request.names, request.ethnicity)
          /\ Selectable(request.names, request.ethnicity)
                = PositiveWeight(request.names, request.ethnicity)
    /\ \A k \in DOMAIN calls :
          (calls[k].sampled /\ calls[k].exc = NoException) =>
              /\ calls[k].ret \in calls[k].names
              /\ calls[k].ret \in PositiveWeight(calls[k].names, calls[k].target)
              /\ Selectable(calls[k].names, calls[k].target)
                    = PositiveWeight(calls[k].names, calls[k].target)

\* a candidate was returned although another one weighs more and a third
\* weighs nothing
C12_Witness ==
    /\ pc = "returned"
    /\ request.op = "_weighted_select"
    /\ Len(ret) = 1
    /\ \E n \in request.names :
          n.prob[request.ethnicity] * (100000 + n.count)
             > ret[1].prob[request.ethnicity] * (100000 + ret[1].count)
    /\ \E n \in request.names : n.prob[request.ethnicity] = 0

----------------------------------------------------------------------------
(* C13 *)

\* C13: when the caller names one of the five categories, the resolved
\* category is that one and no random draw is made, whatever distribution
\* is supplied with it.
C13_ConcreteCategoryReturnedWithoutDraw ==
    /\ \A k \in DOMAIN calls :
          calls[k].ethnicity \in Categories =>
              /\ calls[k].target = calls[k].ethnicity
              /\ calls[k].draws = 0
              /\ \A j \in DOMAIN calls[k].fetches :
                    calls[k].fetches[j].ethnicity = calls[k].ethnicity
    /\ \A k \in DOMAIN fulls :
          fulls[k].ethnicity \in Categories =>
              /\ fulls[k].target = fulls[k].ethnicity
              /\ fulls[k].draws = 0

\* a name of the named category came back although the distribution supplied
\* gives that category no weight
C13_Witness ==
    /\ pc = "returned"
    /\ request.op = "generate_first_name"
    /\ request.ethnicity = "hispanic"
    /\ request.distribution = "all_zero"
    /\ Len(calls) = 1
    /\ calls[1].target = "hispanic"
    /\ calls[1].draws = 0
    /\ ret = <<calls[1].ret>>

----------------------------------------------------------------------------
(* C14 *)

\* the distribution a request draws from: the one supplied, the default
\* when none is
DistributionInUse ==
    IF request.distribution = "None"
    THEN P(600, 130, 180, 60, 30)
    ELSE CustomDistributions[request.distribution]

\* the categories a resolution of "any" can yield
Drawable(distribution) ==
    { r.value : r \in { x \in _select_ethnicity("any", distribution) :
                          x.exc = NoException } }

\* C14: when the caller gives 'any' or no category, one draw is made from the
\* supplied distribution, or from the default one exactly when none is
\* supplied; the category resolved is one of the five and has a positive
\* weight, the categories that can be drawn are exactly those of positive
\* weight, and every fetch is handed one of the five categories.
C14_AnyDrawsFromDistributionInUse ==
    /\ \A k \in DOMAIN calls :
          /\ calls[k].ethnicity \in {"None", "any"} =>
                /\ calls[k].draws = 1
                /\ calls[k].exc # ZeroTotalWeight =>
                      /\ calls[k].target \in Categories
                      /\ DistributionInUse[calls[k].target] > 0
          /\ \A j \in DOMAIN calls[k].fetches :
                calls[k].fetches[j].ethnicity \in Categories
    /\ \A k \in DOMAIN fulls :
          fulls[k].ethnicity \in {"None", "any"} =>
              /\ fulls[k].draws = 1
              /\ fulls[k].exc # ZeroTotalWeight =>
                    /\ fulls[k].target \in Categories
                    /\ DistributionInUse[fulls[k].target] > 0
    /\ Drawable(request.distribution)
          = { c \in Categories : DistributionInUse[c] > 0 }

\* 'any' was resolved from a supplied distribution to a category the default
\* distribution makes rare, and the name fetched is of that category
C14_Witness ==
    /\ pc = "returned"
    /\ request.op = "generate_full_name"
    /\ request.ethnicity = "any"
    /\ request.distribution = "hispanic_asian"
    /\ Len(fulls) = 1
    /\ fulls[1].draws = 1
    /\ fulls[1].target = "asian"
    /\ Len(calls) = 2
    /\ calls[1].fetches[1].ethnicity = "asian"
    /\ calls[2].fetches[1].ethnicity = "asian"

----------------------------------------------------------------------------
(* C15 *)

\* C15 as stated: inside a with block over an existing database the
\* connection handle is open (_conn is not None) from the moment the block
\* is entered, before any generation call has been made.
C15_ConnectionOpenOnceEntered ==
    (session = "entered" /\ db_exists /\ pc = "idle"
       /\ calls = <<>> /\ fulls = <<>>) =>
        _conn # "None"

----------------------------------------------------------------------------
(* C16 *)

\* C16: once a with session has ended the handle is None, whether the block
\* ended normally or a call in it raised; no connection opened in the
\* session is open after it.
C16_SessionEndClosesConnection ==
    session = "exited" => _conn = "None"

\* a call in the block opened the connection and then raised; the session
\* ended with that exception and the handle is None
C16_Witness ==
    /\ session = "exited"
    /\ pc = "raised"
    /\ exc = NoFirstNamesFound
    /\ Len(calls) = 1
    /\ calls[1].conn = "open"
    /\ _conn = "None"

----------------------------------------------------------------------------
(* C17 *)

\* C17: in every paired batch entry the value reported for a category is the
\* thousandth nearest to the mean of the first name's and the surname's
\* probability (twice the value differs from their sum by at most one
\* thousandth, and by nothing when the mean is a whole thousandth); in a
\* first-name-only entry it is the first name's probability.
C17_BatchProbabilitiesAreRoundedMean ==
    request.op = "generate_batch" =>
        \A k \in DOMAIN results :
            \A c \in Categories :
                LET r == results[k].ethnicity_probabilities[c]
                IN IF request.include_surnames
                   THEN LET sum == fulls[k].calls[1].ret.prob[c]
                                     + fulls[k].calls[2].ret.prob[c]
                        IN /\ (2 * r) - sum \in {-1, 0, 1}
                           /\ sum % 2 = 0 => 2 * r = sum
                   ELSE r = calls[k].ret.prob[c]

\* a batch returned a pair whose mean for a category lies half way between
\* two thousandths, and a pair whose means are all whole thousandths
C17_Witness ==
    /\ pc = "returned"
    /\ request.op = "generate_batch"
    /\ request.include_surnames
    /\ Len(results) = 2
    /\ (fulls[1].calls[1].ret.prob["white"]
          + fulls[1].calls[2].ret.prob["white"]) % 2 = 1
    /\ \A c \in Categories :
          (fulls[2].calls[1].ret.prob[c]
             + fulls[2].calls[2].ret.prob[c]) % 2 = 0

----------------------------------------------------------------------------
(* C18 *)

\* the position of a category in the order white, black, hispanic, asian,
\* other
Position(c) ==
    CASE c = "white" -> 1
      [] c = "black" -> 2
      [] c = "hispanic" -> 3
      [] c = "asian" -> 4
      [] c = "other" -> 5

\* C18: dominant_ethnicity returns one of the five categories, its
\* probability is the maximum of the record's five, and every category
\* earlier in the order white, black, hispanic, asian, other has a strictly
\* smaller probability.
C18_DominantIsFirstMaximum ==
    (request.op = "dominant_ethnicity" /\ pc = "returned") =>
        \A record \in request.names :
            /\ dominant \in Categories
            /\ \A c \in Categories : record.prob[c] <= record.prob[dominant]
            /\ \A c \in Categories :
                  Position(c) < Position(dominant) =>
                      record.prob[c] < record.prob[dominant]

\* asian and other share the maximum and asian, the earlier one, is returned
C18_Witness ==
    /\ request.op = "dominant_ethnicity"
    /\ pc = "returned"
    /\ dominant = "asian"
    /\ \E record \in request.names :
          /\ record.prob["asian"] = record.prob["other"]
          /\ record.prob["white"] < record.prob["asian"]

----------------------------------------------------------------------------
(* C19 *)

\* C19: no call of validate_name_combination, generate_middle_name or
\* get_name_context raises; without a client, and when the client call or
\* the reading of its response fails, the call returns its default: is_valid
\* true with confidence 0.5, the empty middle name, the 'Unknown' context.
C19_ValidatorFailuresYieldDefaults ==
    llm.op # "None" =>
        /\ llm.exc = NoException
        /\ (client = "None" \/ llm.response.kind # "text") =>
              /\ llm.op = "validate_name_combination" =>
                    /\ llm.ret.is_valid = TRUE
                    /\ llm.ret.confidence = 500
              /\ llm.op = "generate_middle_name" => llm.ret = <<>>
              /\ llm.op = "get_name_context" =>
                    /\ llm.ret.origin = "Unknown"
                    /\ llm.ret.meaning = "Unknown"

\* a configured client answered with a message that has no content; the
\* validation came back with the default
C19_Witness ==
    /\ client = "Anthropic"
    /\ llm.op = "validate_name_combination"
    /\ llm.response.kind = "empty_content"
    /\ llm.exc = NoException
    /\ llm.ret.is_valid = TRUE
    /\ llm.ret.confidence = 500

----------------------------------------------------------------------------
(* C20 *)

\* C20 as stated: when the command line gives --min-probability p, every
\* name the run generates was selected with p as the threshold of the first
\* fetch of its generation.
C20_CliThresholdIsMinProbabilityArg ==
    args # NoArgs =>
        \A k \in DOMAIN calls :
            (calls[k].exc = NoException /\ calls[k].fetches # <<>>) =>
                calls[k].fetches[1].min_probability = args.min_probability

----------------------------------------------------------------------------
(* C21 *)

\* C21: an error raised in a repetition of generate_batch or in a half of
\* generate_full_name ends the request with that same error: the failing
\* call is the last one made, nothing is returned in its place, a batch
\* that returns has had no failing call and holds all its entries, and
\* after a failed first-name half no surname call is made.
C21_DataErrorsReachTheCaller ==
    /\ \A k \in DOMAIN calls :
          calls[k].exc # NoException =>
              /\ k = Len(calls)
              /\ pc = "raised"
              /\ exc = calls[k].exc
    /\ \A k \in DOMAIN fulls :
          /\ fulls[k].exc # NoException =>
                /\ k = Len(fulls)
                /\ pc = "raised"
                /\ exc = fulls[k].exc
          /\ (fulls[k].calls # <<>> /\ fulls[k].calls[1].exc # NoException) =>
                /\ Len(fulls[k].calls) = 1
                /\ fulls[k].exc = fulls[k].calls[1].exc
    /\ (pc = "raised"
          /\ request.op \in {"generate_first_name", "generate_last_name",
                             "generate_full_name", "generate_batch"}) =>
          /\ ret = <<>>
          /\ exc # NoException
    /\ (pc = "returned" /\ request.op = "generate_batch") =>
          /\ Len(results) = request.count
          /\ \A k \in DOMAIN calls : calls[k].exc = NoException

\* the second repetition of a batch found no first name: the batch ended
\* with that error after one entry was built, and no surname was fetched in
\* the failing repetition
C21_Witness ==
    /\ pc = "raised"
    /\ request.op = "generate_batch"
    /\ request.include_surnames
    /\ exc = NoFirstNamesFound
    /\ Len(results) = 1
    /\ Len(fulls) = 2
    /\ Len(fulls[2].calls) = 1
    /\ fulls[2].calls[1].exc = NoFirstNamesFound
    /\ Len(calls) = 3

----------------------------------------------------------------------------
(* C22 *)

\* C22: in a batch asked for 'any' or no category every repetition makes
\* exactly one draw: with surnames the draw is made by generate_full_name
\* and both halves are generated for the category drawn without drawing
\* again, without surnames the draw is made by generate_first_name; the
\* number of draws is the number of repetitions started.
C22_OneDrawPerRepetition ==
    (request.op = "generate_batch" /\ request.ethnicity \in {"None", "any"}) =>
        /\ DrawCount(fulls) + DrawCount(calls)
              = (IF pc = "raised" THEN i + 1 ELSE i)
        /\ request.include_surnames =>
              /\ Len(fulls) = (IF pc = "raised" THEN i + 1 ELSE i)
              /\ \A k \in DOMAIN fulls :
                    /\ fulls[k].draws = 1
                    /\ \A j \in DOMAIN fulls[k].calls :
                          /\ fulls[k].calls[j].draws = 0
                          /\ fulls[k].calls[j].target = fulls[k].target
        /\ ~request.include_surnames =>
              /\ fulls = <<>>
              /\ Len(calls) = (IF pc = "raised" THEN i + 1 ELSE i)
              /\ \A k \in DOMAIN calls : calls[k].draws = 1

\* a batch returned two pairs generated for different categories, each pair
\* with both halves of its own category
C22_Witness ==
    /\ pc = "returned"
    /\ request.op = "generate_batch"
    /\ request.ethnicity = "any"
    /\ request.include_surnames
    /\ Len(fulls) = 2
    /\ fulls[1].target # fulls[2].target
    /\ \A k \in DOMAIN fulls :
          /\ Len(fulls[k].calls) = 2
          /\ fulls[k].calls[1].target = fulls[k].calls[2].target

----------------------------------------------------------------------------
(* C23 *)

\* C23 as stated: over a first_names table the loader populated, a request
\* for a MALE or FEMALE first name succeeds with a name of that gender
\* whenever the same request with gender ANY, for the same category and
\* threshold, succeeds.
C23_GenderRequestsSucceedOnLoadedData ==
    \A k \in DOMAIN calls :
        (/\ tables \in LoaderDatabases
         /\ calls[k].fn = "generate_first_name"
         /\ calls[k].gender \in {"M", "F"}
         /\ calls[k].target \in Categories
         /\ \E o \in generate_first_name(calls[k].conn, calls[k].target, "ANY",
                                         "None", calls[k].min_probability) :
               o.exc = NoException) =>
            /\ calls[k].exc = NoException
            /\ calls[k].ret.gender = calls[k].gender

----------------------------------------------------------------------------
(* C24 *)

\* the number of rows of a table that carry a name
RowsOf(name, rows) == Cardinality({ r \in rows : r.name = name })

\* C24 as stated: when import_data has imported the same data twice in a
\* row, both tables hold after the second import the same rows as after
\* the first, and no name is in more rows than before.
C24_ImportDataIsIdempotent ==
    LET n == Len(loader.imports)
    IN (/\ n >= 2
        /\ loader.imports[n] = loader.imports[n - 1]
        /\ loader.imports[n].exc = NoException) =>
           /\ TableRows(loader.db.first_names)
                 = TableRows(loader.before.first_names)
           /\ TableRows(loader.db.surnames)
                 = TableRows(loader.before.surnames)
           /\ \A r \in loader.db.first_names :
                 RowsOf(r.name, loader.db.first_names)
                    <= RowsOf(r.name, loader.before.first_names)
           /\ \A r \in loader.db.surnames :
                 RowsOf(r.name, loader.db.surnames)
                    <= RowsOf(r.name, loader.before.surnames)

----------------------------------------------------------------------------
(* C25 *)

\* both tables are there and hold rows
Populated ==
    /\ DOMAIN tables = {"first_names", "surnames"}
    /\ Matching("first_names", "white", 0) # {}
    /\ Matching("surnames", "white", 0) # {}

\* C25 as stated: a run of the command line with --db-path naming an
\* existing, populated database opens that database: no fetch of the run
\* and not the run itself ends with the AttributeError of the existence
\* check, and a run that resolved a category has the connection open after
\* its first generation call.
C25_CliDbPathIsUsable ==
    (args.db_path # "None" /\ db_exists /\ Populated /\ Finished) =>
        /\ exc.type # "AttributeError"
        /\ \A k \in DOMAIN calls :
              /\ \A j \in DOMAIN calls[k].fetches :
                    calls[k].fetches[j].exc.type # "AttributeError"
              /\ calls[k].fetches # <<>> => calls[k].conn = "open"

----------------------------------------------------------------------------
(* C26 *)

\* C26: every get_validator call returns the instance the first call
\* constructed: one instance is ever created, and its key and its client
\* are those the first call's api_key gave it, whatever api_key later calls
\* pass.
C26_GetValidatorIsSingleton ==
    got # <<>> =>
        /\ _validator_instance = got[1].ret
        /\ \A k \in DOMAIN got :
              /\ got[k].ret = got[1].ret
              /\ got[k].ret.id = 1
              /\ got[k].ret.api_key
                    = (IF got[1].api_key \in {"None", ""}
                       THEN "None" ELSE got[1].api_key)
              /\ got[k].ret.client
                    = (IF got[1].api_key \in {"None", ""}
                       THEN "None" ELSE "Anthropic")

\* the first call gave no key and a later call gave one: the instance
\* returned is still the first, without key and without client
C26_Witness ==
    /\ Len(got) >= 2
    /\ got[1].api_key = "None"
    /\ got[2].api_key = "sk-ant"
    /\ got[2].ret.id = 1
    /\ got[2].ret.api_key = "None"
    /\ got[2].ret.client = "None"
    /\ client = "None"

=============================================================================
